---- MODULE Spec2Model ----
(***************************************************************************)
(* Model of streamlit_app.py: the diagnosis-helper session.  A string is a *)
(* sequence of tokens: a token is one character, or one fixed span of the  *)
(* prompt template, or one JSON lexeme of a model response.                *)
(***************************************************************************)
EXTENDS Integers, Sequences, FiniteSets, TLC

VARIABLES
    api_key,              \* st.session_state.api_key
    consultation_data,    \* st.session_state.consultation_data
    current_diagnoses,    \* st.session_state.current_diagnoses
    follow_up_questions,  \* st.session_state.follow_up_questions
    suggested_conduct,    \* st.session_state.suggested_conduct
    suggested_followup,   \* st.session_state.suggested_followup
    input_key,            \* st.session_state.input_key
    medical_input,        \* value of the text area medical_input_<input_key>
    clicked,              \* the widget whose interaction started the last run
    pc,                   \* "Idle", or "Submitting" while generate_content is awaited
    prompt,               \* the prompt handed to model.generate_content, in flight
    reply,                \* what generate_content / response.text is about to deliver
    response_text,        \* local response_text of get_ai_analysis
    analysis,             \* local analysis of main: result of get_ai_analysis
    shown,                \* last st.error / st.warning the script emitted
    analysis_prompt       \* history: prompt whose response filled the four analysis fields

vars == <<api_key, consultation_data, current_diagnoses, follow_up_questions,
          suggested_conduct, suggested_followup, input_key, medical_input,
          clicked, pc, prompt, reply, response_text, analysis, shown,
          analysis_prompt>>

session == <<consultation_data, current_diagnoses, follow_up_questions,
             suggested_conduct, suggested_followup, input_key>>

fields == <<current_diagnoses, follow_up_questions, suggested_conduct,
            suggested_followup>>

-----------------------------------------------------------------------------
(* Bounds of the model *)

MaxTextLen == 2

MaxObs == 2

MaxInputKey == 3

MaxRawLen == 6

-----------------------------------------------------------------------------
(* Strings *)

Whitespace == {" ", "\n"}

TextAlphabet == {" ", "a"}

SeqsUpTo(S, n) == UNION {[1..k -> S] : k \in 0..n}

Texts == SeqsUpTo(TextAlphabet, MaxTextLen)

ApiKeys == {"", "k1", "k2"}

Max(S) == CHOOSE x \in S : \A y \in S : y <= x

Min(S) == CHOOSE x \in S : \A y \in S : x <= y

RECURSIVE LStrip(_)
LStrip(s) ==
    IF s # <<>> /\ Head(s) \in Whitespace THEN LStrip(Tail(s)) ELSE s

RECURSIVE RStrip(_)
RStrip(s) ==
    IF s # <<>> /\ s[Len(s)] \in Whitespace
    THEN RStrip(SubSeq(s, 1, Len(s) - 1))
    ELSE s

\* Mutant of Strip: trailing whitespace is kept
Strip_LeftOnly(s) == LStrip(s)

\* str.strip()
Strip(s) == RStrip(LStrip(s))

\* str(n) for n >= 0
RECURSIVE IntToStr(_)
IntToStr(n) ==
    LET digit == <<"0", "1", "2", "3", "4", "5", "6", "7", "8", "9">>[(n % 10) + 1]
    IN  IF n < 10 THEN <<digit>> ELSE Append(IntToStr(n \div 10), digit)

\* sep.join(parts)
RECURSIVE Join(_, _)
Join(parts, sep) ==
    IF parts = <<>> THEN <<>>
    ELSE IF Len(parts) = 1 THEN parts[1]
    ELSE parts[1] \o sep \o Join(Tail(parts), sep)

-----------------------------------------------------------------------------
(* get_ai_analysis: the prompt *)

\* f"Input {i+1}: {data}" for the 0-based index i
InputLine(i, data) == <<"Input ">> \o IntToStr(i + 1) \o <<": ">> \o data

\* Mutant of ConsultationText: only the newest observation is rendered
ConsultationText_LastOnly(data) ==
    IF data = <<>> THEN <<>> ELSE InputLine(Len(data) - 1, data[Len(data)])

ConsultationText(data) ==
    Join([k \in 1..Len(data) |-> InputLine(k - 1, data[k])], <<"\n">>)

PromptHead ==
    <<"\nAs a medical AI assistant, analyze the following consultation data and provide:\n\nConsultation Data:\n">>

PromptTail ==
    <<"\n\nPlease provide your response in the following JSON format: ... Important: ...\n">>

BuildPrompt(data) == PromptHead \o ConsultationText(data) \o PromptTail

-----------------------------------------------------------------------------
(* get_ai_analysis: re.search(r'\{.*\}', response_text, re.DOTALL) *)

NoMatch == <<"NoMatch">>

\* Mutant of MatchEnd: the pattern \{.*?\} stops at the first "}"
MatchEnd_NonGreedy(s, i) ==
    LET ends == {j \in (i + 1)..Len(s) : s[j] = "}"}
    IN  IF s[i] # "{" \/ ends = {} THEN 0 ELSE Min(ends)

\* End of the match that starts at i: `.*` is greedy, so the last "}" after i.
MatchEnd(s, i) ==
    LET ends == {j \in (i + 1)..Len(s) : s[j] = "}"}
    IN  IF s[i] # "{" \/ ends = {} THEN 0 ELSE Max(ends)

\* Leftmost start at which the pattern matches; json_match.group()
ReSearch(s) ==
    LET starts == {i \in 1..Len(s) : MatchEnd(s, i) # 0}
    IN  IF starts = {} THEN NoMatch
        ELSE SubSeq(s, Min(starts), MatchEnd(s, Min(starts)))

-----------------------------------------------------------------------------
(* json.loads on the lexemes of a response *)

JsonKeys == {"diagnoses:", "follow_up_questions:", "suggested_conduct:",
             "suggested_followup:", "other:"}

JsonAtoms == {"1", "2"}

Atom(a) == <<"atom", a>>

Obj(f) == <<"obj", f>>

EmptyDict == <<>>

Fail == [ok |-> FALSE]

Ok(v, p) == [ok |-> TRUE, val |-> v, pos |-> p]

RECURSIVE SkipWs(_, _)
SkipWs(s, i) ==
    IF i <= Len(s) /\ s[i] \in Whitespace THEN SkipWs(s, i + 1) ELSE i

Put(d, k, v) == [x \in (DOMAIN d) \cup {k} |-> IF x = k THEN v ELSE d[x]]

RECURSIVE ParseValue(_, _)
RECURSIVE ParseMembers(_, _, _)

\* s[i] = "{": an object
ParseObject(s, i) ==
    LET j == SkipWs(s, i + 1)
    IN  IF j > Len(s) THEN Fail
        ELSE IF s[j] = "}" THEN Ok(Obj(EmptyDict), j + 1)
        ELSE ParseMembers(s, j, EmptyDict)

ParseValue(s, i) ==
    IF i > Len(s) THEN Fail
    ELSE IF s[i] \in JsonAtoms THEN Ok(Atom(s[i]), i + 1)
    ELSE IF s[i] = "{" THEN ParseObject(s, i)
    ELSE Fail

\* members from position j on, d the pairs read so far (a later pair of
\* the same key replaces the earlier one)
ParseMembers(s, j, d) ==
    IF j > Len(s) \/ s[j] \notin JsonKeys THEN Fail
    ELSE LET v == ParseValue(s, SkipWs(s, j + 1))
         IN  IF ~v.ok THEN Fail
             ELSE LET d2 == Put(d, s[j], v.val)
                      m  == SkipWs(s, v.pos)
                  IN  IF m > Len(s) THEN Fail
                      ELSE IF s[m] = "}" THEN Ok(Obj(d2), m + 1)
                      ELSE IF s[m] = "," THEN ParseMembers(s, SkipWs(s, m + 1), d2)
                      ELSE Fail

\* json.loads(s): one value, whitespace around it, nothing after it
JsonLoads(s) ==
    LET v == ParseValue(s, SkipWs(s, 1))
    IN  IF ~v.ok THEN Fail
        ELSE IF SkipWs(s, v.pos) # Len(s) + 1 THEN Fail
        ELSE v

-----------------------------------------------------------------------------
(* get_ai_analysis: from the reply of generate_content to the returned value *)

None == <<"None">>

\* Outcomes of model.generate_content(prompt) / response.text
NoReply == <<"pending">>

Raised == <<"raise">>

Text(raw) == <<"text", raw>>

Returned(a, msg) == [result |-> a, shown |-> msg]

GetAiAnalysis(rep) ==
    IF rep = Raised THEN Returned(None, "GatewayError")
    ELSE LET json_match == ReSearch(rep[2])
         IN  IF json_match = NoMatch THEN Returned(None, "NoPayloadFound")
             ELSE LET parsed == JsonLoads(json_match)
                  IN  IF parsed.ok THEN Returned(parsed.val, "None")
                      ELSE Returned(None, "MalformedPayload")

\* Python truth value of the returned analysis: None and {} are false
Truthy(a) == a # None /\ DOMAIN a[2] # {}

\* analysis.get(key, default)
DictGet(a, key, default) == IF key \in DOMAIN a[2] THEN a[2][key] ELSE default

EmptyList == Atom("[]")

EmptyStr == Atom("''")

\* Mutant of NewField: a failed run wipes the field
NewField_ResetsOnFailure(a, key, default, old) ==
    IF Truthy(a) THEN DictGet(a, key, default) ELSE default

\* `if analysis:` and the assignment under it: the value a session field
\* takes from the returned analysis, old being its value before
NewField(a, key, default, old) ==
    IF Truthy(a) THEN DictGet(a, key, default) ELSE old

-----------------------------------------------------------------------------
(* Inputs *)

\* Response texts the gateway may return in Spec
Responses ==
    { <<"x", " ", "{", "diagnoses:", "1", ",", "follow_up_questions:", "1", ",",
        "suggested_conduct:", "1", ",", "suggested_followup:", "1", "}", " ", "x">>,
      <<"{", "diagnoses:", "2", "}">>,
      <<"{", "other:", "1", "}">>,
      <<"{", "}">>,
      <<"x", "x">>,
      <<"{", "x", "}">> }

Replies == {Raised} \cup {Text(r) : r \in Responses}

\* Response texts of SpecExtract: every string of these tokens up to MaxRawLen
RawAlphabet == {"{", "}", ",", " ", "x", "diagnoses:", "1"}

RawReplies == {Text(r) : r \in SeqsUpTo(RawAlphabet, MaxRawLen)}

-----------------------------------------------------------------------------
(* The session *)

Init ==
    /\ api_key = ""
    /\ consultation_data = <<>>
    /\ current_diagnoses = EmptyList
    /\ follow_up_questions = EmptyList
    /\ suggested_conduct = EmptyStr
    /\ suggested_followup = EmptyStr
    /\ input_key = 0
    /\ medical_input = <<>>
    /\ clicked = "none"
    /\ pc = "Idle"
    /\ prompt = <<>>
    /\ reply = NoReply
    /\ response_text = <<>>
    /\ analysis = None
    /\ shown = "MissingCredential"
    /\ analysis_prompt = <<>>

\* Mutant of HasData: `if medical_input:`
HasData_NoStrip(text) == text # <<>>

\* `if medical_input.strip():`
HasData(text) == Strip(text) # <<>>

\* What a run emits when it reaches the main area with the key `key`
MainWarning(key) == IF key = "" THEN "MissingCredential" ELSE "None"

\* The sidebar text input returns k
SetCredential(k) ==
    /\ pc = "Idle"
    /\ api_key' = IF k # "" THEN k ELSE api_key
    /\ clicked' = "api_key"
    /\ shown' = MainWarning(api_key')
    /\ UNCHANGED <<session, medical_input, pc, prompt, reply, response_text, analysis,
                   analysis_prompt>>

\* Mutant of Clear: the analysis fields are not reset
Clear_KeepsAnalysis ==
    /\ pc = "Idle"
    /\ input_key < MaxInputKey
    /\ consultation_data' = <<>>
    /\ input_key' = input_key + 1
    /\ medical_input' = <<>>
    /\ clicked' = "clear"
    /\ shown' = MainWarning(api_key)
    /\ UNCHANGED <<api_key, fields, pc, prompt, reply, response_text, analysis,
                   analysis_prompt>>

\* Mutant of Clear: suggested_followup is not reset
Clear_KeepsFollowup ==
    /\ pc = "Idle"
    /\ input_key < MaxInputKey
    /\ consultation_data' = <<>>
    /\ current_diagnoses' = EmptyList
    /\ follow_up_questions' = EmptyList
    /\ suggested_conduct' = EmptyStr
    /\ input_key' = input_key + 1
    /\ medical_input' = <<>>
    /\ clicked' = "clear"
    /\ shown' = MainWarning(api_key)
    /\ analysis_prompt' = analysis_prompt
    /\ UNCHANGED <<api_key, suggested_followup, pc, prompt, reply, response_text,
                   analysis>>

\* Mutant of Clear: the credential is reset too
Clear_ResetsKey ==
    /\ pc = "Idle"
    /\ input_key < MaxInputKey
    /\ api_key' = ""
    /\ consultation_data' = <<>>
    /\ current_diagnoses' = EmptyList
    /\ follow_up_questions' = EmptyList
    /\ suggested_conduct' = EmptyStr
    /\ suggested_followup' = EmptyStr
    /\ input_key' = input_key + 1
    /\ medical_input' = <<>>
    /\ clicked' = "clear"
    /\ shown' = MainWarning("")
    /\ analysis_prompt' = <<>>
    /\ UNCHANGED <<pc, prompt, reply, response_text, analysis>>

\* The "Clear Session" button
Clear ==
    /\ pc = "Idle"
    /\ input_key < MaxInputKey
    /\ consultation_data' = <<>>
    /\ current_diagnoses' = EmptyList
    /\ follow_up_questions' = EmptyList
    /\ suggested_conduct' = EmptyStr
    /\ suggested_followup' = EmptyStr
    /\ input_key' = input_key + 1
    /\ medical_input' = <<>>
    /\ clicked' = "clear"
    /\ shown' = MainWarning(api_key)
    /\ analysis_prompt' = <<>>
    /\ UNCHANGED <<api_key, pc, prompt, reply, response_text, analysis>>

\* Mutant of SubmitBegin: the main area is rendered without a credential
SubmitBegin_NoKeyCheck(text) ==
    /\ pc = "Idle"
    /\ HasData(text)
    /\ Len(consultation_data) < MaxObs
    /\ input_key < MaxInputKey
    /\ consultation_data' = Append(consultation_data, Strip(text))
    /\ prompt' = BuildPrompt(consultation_data')
    /\ medical_input' = text
    /\ clicked' = "process"
    /\ shown' = "None"
    /\ pc' = "Submitting"
    /\ UNCHANGED <<api_key, fields, input_key, reply, response_text, analysis,
                   analysis_prompt>>

\* The "Processar" button with text in the text area, up to the call of
\* model.generate_content
SubmitBegin(text) ==
    /\ pc = "Idle"
    /\ api_key # ""
    /\ HasData(text)
    /\ Len(consultation_data) < MaxObs
    /\ input_key < MaxInputKey
    /\ consultation_data' = Append(consultation_data, Strip(text))
    /\ prompt' = BuildPrompt(consultation_data')
    /\ medical_input' = text
    /\ clicked' = "process"
    /\ shown' = "None"
    /\ pc' = "Submitting"
    /\ UNCHANGED <<api_key, fields, input_key, reply, response_text, analysis,
                   analysis_prompt>>

\* The "Processar" button with nothing but whitespace in the text area
SubmitEmpty(text) ==
    /\ pc = "Idle"
    /\ api_key # ""
    /\ ~HasData(text)
    /\ medical_input' = text
    /\ clicked' = "process"
    /\ shown' = "EmptyInput"
    /\ UNCHANGED <<api_key, session, pc, prompt, reply, response_text, analysis,
                   analysis_prompt>>

\* The gateway answers the call in flight: a response text, or an exception
Gateway(rep) ==
    /\ pc = "Submitting"
    /\ reply = NoReply
    /\ reply' = rep
    /\ UNCHANGED <<api_key, session, medical_input, clicked, pc, prompt,
                   response_text, analysis, shown, analysis_prompt>>

\* generate_content returns or raises; the rest of the handler runs
GatewayReply ==
    /\ pc = "Submitting"
    /\ reply # NoReply
    /\ LET r == GetAiAnalysis(reply)
       IN  /\ analysis' = r.result
           /\ shown' = r.shown
           /\ current_diagnoses' =
                  NewField(r.result, "diagnoses:", EmptyList, current_diagnoses)
           /\ follow_up_questions' =
                  NewField(r.result, "follow_up_questions:", EmptyList,
                           follow_up_questions)
           /\ suggested_conduct' =
                  NewField(r.result, "suggested_conduct:", EmptyStr, suggested_conduct)
           /\ suggested_followup' =
                  NewField(r.result, "suggested_followup:", EmptyStr,
                           suggested_followup)
           /\ analysis_prompt' = IF Truthy(r.result) THEN prompt ELSE analysis_prompt
    /\ response_text' = IF reply = Raised THEN <<>> ELSE reply[2]
    /\ input_key' = input_key + 1
    /\ medical_input' = <<>>
    /\ prompt' = <<>>
    /\ reply' = NoReply
    /\ pc' = "Idle"
    /\ UNCHANGED <<api_key, consultation_data, clicked>>

Next ==
    \/ \E k \in ApiKeys : SetCredential(k)
    \/ Clear
    \/ \E text \in Texts : SubmitBegin(text)
    \/ \E text \in Texts : SubmitEmpty(text)
    \/ \E rep \in Replies : Gateway(rep)
    \/ GatewayReply

Spec == Init /\ [][Next]_vars

-----------------------------------------------------------------------------
(* The extractor on every response text up to MaxRawLen: one observation   *)
(* has been submitted and the gateway has answered its call.               *)

InitExtract ==
    /\ api_key = "k1"
    /\ consultation_data = << <<"a">> >>
    /\ current_diagnoses = EmptyList
    /\ follow_up_questions = EmptyList
    /\ suggested_conduct = EmptyStr
    /\ suggested_followup = EmptyStr
    /\ input_key = 0
    /\ medical_input = <<"a">>
    /\ clicked = "process"
    /\ pc = "Submitting"
    /\ prompt = BuildPrompt(consultation_data)
    /\ reply \in RawReplies
    /\ response_text = <<>>
    /\ analysis = None
    /\ shown = "None"
    /\ analysis_prompt = <<>>

NextExtract == GatewayReply

SpecExtract == InitExtract /\ [][NextExtract]_vars

-----------------------------------------------------------------------------
(* Properties *)

AnalysisEmpty ==
    /\ current_diagnoses = EmptyList
    /\ follow_up_questions = EmptyList
    /\ suggested_conduct = EmptyStr
    /\ suggested_followup = EmptyStr

IsPrefix(p, l) == Len(p) <= Len(l) /\ SubSeq(l, 1, Len(p)) = p

NonBlank(text) == \E k \in 1..Len(text) : text[k] \notin Whitespace

\* t is text without its leading and trailing whitespace
IsTrimOf(t, text) ==
    \E i, j \in 0..Len(text) :
        /\ i + j <= Len(text)
        /\ t = SubSeq(text, i + 1, Len(text) - j)
        /\ \A k \in 1..i : text[k] \in Whitespace
        /\ \A k \in (Len(text) - j + 1)..Len(text) : text[k] \in Whitespace
        /\ t = <<>> \/ (t[1] \notin Whitespace /\ t[Len(t)] \notin Whitespace)

\* C1 as stated: in every state shown to the user the analysis is empty or
\* comes from the prompt built from exactly the current observations.
C1_Original ==
    pc = "Idle" => (AnalysisEmpty \/ analysis_prompt = BuildPrompt(consultation_data))

\* C1 (amended): in every reachable state the analysis is empty or comes from
\* the prompt built from a non-empty prefix of the current observations: the
\* list as it stood at the last submit whose response gave a non-empty record.
C1_DerivedFromPrefix ==
    AnalysisEmpty \/
    \E k \in 1..Len(consultation_data) :
        analysis_prompt = BuildPrompt(SubSeq(consultation_data, 1, k))

\* An analysis is shown next to a longer list than the one it came from
C1_Witness ==
    /\ pc = "Idle"
    /\ ~AnalysisEmpty
    /\ Len(consultation_data) = 2
    /\ analysis_prompt = BuildPrompt(SubSeq(consultation_data, 1, 1))

\* C2 as stated: whenever get_ai_analysis returns a parsed payload, each of
\* the four fields becomes the payload's value for it, or empty if the payload
\* lacks it.
C2_Claim ==
    [][(reply # NoReply /\ reply' = NoReply /\ analysis' # None) =>
          /\ current_diagnoses' = DictGet(analysis', "diagnoses:", EmptyList)
          /\ follow_up_questions' =
                 DictGet(analysis', "follow_up_questions:", EmptyList)
          /\ suggested_conduct' = DictGet(analysis', "suggested_conduct:", EmptyStr)
          /\ suggested_followup' =
                 DictGet(analysis', "suggested_followup:", EmptyStr)]_vars

\* C3: when the gateway call raises or no analysis can be extracted from the
\* response, the run ends Idle, the observation just submitted is still the
\* last one recorded and the four analysis fields are as before the call.
C3_FailureKeepsAnalysis ==
    [][(reply # NoReply /\ reply' = NoReply /\ (reply = Raised \/ analysis' = None)) =>
          /\ pc' = "Idle"
          /\ shown' \in {"GatewayError", "NoPayloadFound", "MalformedPayload"}
          /\ fields' = fields
          /\ consultation_data' = consultation_data
          /\ consultation_data' # <<>>
          /\ IsTrimOf(consultation_data'[Len(consultation_data')], medical_input)]_vars

\* A failed run after a run that filled the analysis
C3_Witness ==
    /\ pc = "Idle"
    /\ shown \in {"GatewayError", "NoPayloadFound", "MalformedPayload"}
    /\ analysis = None
    /\ ~AnalysisEmpty
    /\ Len(consultation_data) = 2

\* C4: a submit of text that is not blank appends exactly the trimmed text:
\* the list grows by one and the old list is a prefix of the new one; the
\* gateway's answer and its handling leave the list as it is.
C4_AppendTrimmed ==
    [][/\ (pc = "Idle" /\ clicked' = "process" /\ NonBlank(medical_input')) =>
            /\ api_key # ""
            /\ Len(consultation_data') = Len(consultation_data) + 1
            /\ IsPrefix(consultation_data, consultation_data')
            /\ IsTrimOf(consultation_data'[Len(consultation_data')], medical_input')
            /\ consultation_data'[Len(consultation_data')] # <<>>
       /\ pc = "Submitting" => consultation_data' = consultation_data]_vars

\* Text with leading whitespace was submitted after an earlier observation
C4_Witness ==
    /\ pc = "Submitting"
    /\ medical_input = <<" ", "a">>
    /\ consultation_data = << <<"a", "a">>, <<"a">> >>

\* C5: a submit of empty or whitespace-only text emits the empty-input error
\* and changes no observation and no analysis field, and no gateway call is
\* started.
C5_EmptyRejected ==
    [][(pc = "Idle" /\ clicked' = "process" /\ ~NonBlank(medical_input')) =>
          /\ shown' = "EmptyInput"
          /\ consultation_data' = consultation_data
          /\ fields' = fields
          /\ pc' = "Idle"
          /\ prompt' = prompt
          /\ reply' = reply]_vars

\* Whitespace-only text was rejected in a session that holds an analysis
C5_Witness ==
    /\ shown = "EmptyInput"
    /\ medical_input = <<" ", " ">>
    /\ ~AnalysisEmpty
    /\ consultation_data # <<>>

\* C6: every clear leaves the observations empty and the four analysis fields
\* at their empty values, whatever the state before and whether or not a
\* credential is set.
C6_ClearResets ==
    [][clicked' = "clear" => (consultation_data' = <<>> /\ AnalysisEmpty')]_vars

\* A clear after a run that had filled the analysis
C6_Witness ==
    /\ clicked = "clear"
    /\ analysis # None
    /\ Truthy(analysis)
    /\ consultation_data = <<>>

\* C7 as stated: after clear the credential is empty.
C7_Original == clicked = "clear" => api_key = ""

\* C7 (amended): clear resets the observations, the four analysis fields and
\* the text area, and leaves the credential as it was; with a credential set
\* a submit can follow at once (as long as input_key is below its cap).
C7_ClearKeepsCredential ==
    [][clicked' = "clear" =>
          /\ consultation_data' = <<>>
          /\ AnalysisEmpty'
          /\ medical_input' = <<>>
          /\ api_key' = api_key
          /\ (api_key # "" /\ input_key' < MaxInputKey) =>
                 (ENABLED SubmitBegin(<<"a">>))']_vars

\* A clear in a session with a credential
C7_Witness == clicked = "clear" /\ api_key # "" /\ shown = "None"

\* C8: while the credential is empty no step appends an observation, starts a
\* gateway call or changes an analysis field; the run emits the missing
\* credential warning and the session stays Idle with nothing recorded.
C8_NoCredentialNoPipeline ==
    [][api_key' = "" =>
          /\ consultation_data' = consultation_data
          /\ consultation_data' = <<>>
          /\ fields' = fields
          /\ pc' = "Idle"
          /\ prompt' = prompt
          /\ reply' = reply
          /\ shown' = "MissingCredential"]_vars

\* A run with the key input left empty
C8_Witness == api_key = "" /\ clicked = "api_key" /\ shown = "MissingCredential"

\* Decimal digits of a position below 10
PositionTag(k) == <<"1", "2", "3", "4", "5", "6", "7", "8", "9">>[k]

Tagged(data) ==
    [k \in 1..Len(data) |-> <<"Input ", PositionTag(k), ": ">> \o data[k]]

\* First position from start on at which seg occurs in s, 0 if none
FindFrom(s, seg, start) ==
    LET at == {p \in start..(Len(s) - Len(seg) + 1) : SubSeq(s, p, p + Len(seg) - 1) = seg}
    IN  IF at = {} THEN 0 ELSE Min(at)

RECURSIVE OccurInOrder(_, _, _)
OccurInOrder(s, segs, start) ==
    IF segs = <<>> THEN TRUE
    ELSE LET p == FindFrom(s, Head(segs), start)
         IN  p # 0 /\ OccurInOrder(s, Tail(segs), p + Len(Head(segs)))

\* C9: the prompt in flight holds every observation recorded so far, the one
\* just submitted included, each behind its 1-based position, in insertion
\* order.
C9_PromptHoldsHistory ==
    pc = "Submitting" =>
        /\ consultation_data # <<>>
        /\ IsTrimOf(consultation_data[Len(consultation_data)], medical_input)
        /\ OccurInOrder(prompt, Tagged(consultation_data), 1)

\* The second submission's prompt is in flight
C9_Witness ==
    /\ pc = "Submitting"
    /\ consultation_data = << <<"a">>, <<"a", "a">> >>

\* Canonical text of a small record
Records ==
    { EmptyDict,
      [k \in {"diagnoses:"} |-> Atom("1")],
      [k \in {"diagnoses:"} |-> Obj(EmptyDict)] }

Render(rec) ==
    IF rec = EmptyDict THEN <<"{", "}">>
    ELSE IF rec["diagnoses:"] = Atom("1") THEN <<"{", "diagnoses:", "1", "}">>
    ELSE <<"{", "diagnoses:", "{", "}", "}">>

NoBrace(s) == \A k \in 1..Len(s) : s[k] \notin {"{", "}"}

\* C10: the extractor takes the span from the first "{" to the last "}".
\* Without a "{" followed later by a "}" it reports that no payload was found;
\* a span that is no record is reported as malformed; otherwise the result is
\* the record of the span, and a record in brace-free prose is recovered
\* as it is.  No analysis is returned when it fails.
C10_Extract ==
    pc = "Idle" =>
        LET raw    == response_text
            opens  == {i \in 1..Len(raw) : raw[i] = "{"}
            closes == {j \in 1..Len(raw) : raw[j] = "}"}
            paired == \E i \in opens : \E j \in closes : i < j
            span   == SubSeq(raw, Min(opens), Max(closes))
        IN  /\ ~paired => (analysis = None /\ shown = "NoPayloadFound")
            /\ (paired /\ ~JsonLoads(span).ok) =>
                   (analysis = None /\ shown = "MalformedPayload")
            /\ (paired /\ JsonLoads(span).ok) =>
                   (analysis = JsonLoads(span).val /\ shown = "None")
            /\ \A rec \in Records : \A i \in 0..Len(raw) :
                   LET j == i + Len(Render(rec))
                   IN  ( /\ j <= Len(raw)
                         /\ SubSeq(raw, i + 1, j) = Render(rec)
                         /\ NoBrace(SubSeq(raw, 1, i))
                         /\ NoBrace(SubSeq(raw, j + 1, Len(raw))) )
                       => analysis = Obj(rec)

\* A record between prose was extracted
C10_Witness ==
    /\ pc = "Idle"
    /\ response_text = <<"x", "{", "diagnoses:", "1", "}", "x">>
    /\ analysis = Obj([k \in {"diagnoses:"} |-> Atom("1")])

====
